---- MODULE Spec2Model ----
(***************************************************************************)
(* The attention-driven content switching of focuspals-fe:                 *)
(*   Dashboard              (src/app/dashboard/page.tsx)                   *)
(*   AttentionLevelTracker  (src/app/ui/studio-panel/studio-panel.tsx)     *)
(*                                                                         *)
(* One action is one event delivered to the page (a socket sample, a       *)
(* button click, a file selection, a fetch settling, the page unmounting,  *)
(* the clock advancing) together with the re-renders and effects React     *)
(* runs because of it, up to the next quiescent state.                     *)
(***************************************************************************)
EXTENDS Integers, Sequences, FiniteSets, TLC

VARIABLES
    \* ---- Dashboard (page.tsx) ----
    selectedFile,               \* useState<File|undefined>; 0 is undefined
    currentData,                \* useState<ContentData|null>; <<>> is null, <<r>> is r
    isLoading,                  \* useState(false)
    attentionData,              \* useState({attentionLevel: 75, shouldSwitchContent: false})
    pending,                    \* the fetchContent calls awaiting their response
    mounted,                    \* FALSE once the page has been unmounted
    \* ---- AttentionLevelTracker (studio-panel.tsx) ----
    attentionLevel,             \* useState(75)
    focusScoreHistory,          \* useState<number[]>([])
    averageFocusScore,          \* useState<number>(75)
    showContentSuggestionModal, \* useState(false)
    lastSuggestionTimeRef,      \* useRef<number|null>(null); 0 is null
    \* ---- environment and observation ----
    now,                        \* Date.now()
    issued,                     \* number of fetches issued so far
    arrived,                    \* the focusScoreUpdate payloads accepted so far, in arrival order
    emitted,                    \* the onAttentionChange calls made by the last event handled
    \* ---- the classification applied to one signal ----
    signal,                     \* a signal handed to both classifications
    classified                  \* <<>> or <<type in fetchContent, type in updateContentType>>

vars == <<selectedFile, currentData, isLoading, attentionData, pending, mounted,
          attentionLevel, focusScoreHistory, averageFocusScore,
          showContentSuggestionModal, lastSuggestionTimeRef,
          now, issued, arrived, emitted, signal, classified>>

dashboardVars == <<selectedFile, currentData, isLoading, attentionData, pending, issued>>
trackerVars == <<attentionLevel, focusScoreHistory, averageFocusScore,
                 showContentSuggestionModal, lastSuggestionTimeRef, arrived>>
classifyVars == <<signal, classified>>

----------------------------------------------------------------------------
\* Program constants

SUGGESTION_COOLDOWN == 60000
FOCUS_HISTORY_SIZE == 5
LOW_FOCUS_THRESHOLD == 40
InitialAttentionLevel == 75

\* Bounds of the model

MaxSamples == 5         \* samples per session (Spec)
MaxFetches == 1         \* fetches issued per session (Spec)
MaxLowSamples == 6      \* samples per session (SpecFiles)
MaxFileFetches == 2     \* fetches issued per session (SpecFiles)
MaxSmoothSamples == 6   \* samples per session (SpecSmooth)
MaxArbiterSamples == 6  \* samples per session (SpecArbiter)
MaxTicks == 2           \* clock advances per session
StartTime == 1000       \* Date.now() when the page mounts
MaxSignal == 100        \* largest signal handed to the classification

TickMs == SUGGESTION_COOLDOWN \div 2

\* The uploaded files the viewer can select
Files == {1, 2}

----------------------------------------------------------------------------
\* Values

Null == <<>>
Some(x) == <<x>>
IsNull(v) == v = <<>>
Get(v) == v[1]

\* A focusScoreUpdate payload {timestamp, focusScore}: focusScore is undefined
\* (defined = FALSE) or the number num/den.
Undefined == [defined |-> FALSE, num |-> 0, den |-> 1]
Num(n) == [defined |-> TRUE, num |-> n, den |-> 1]
Half(n) == [defined |-> TRUE, num |-> n, den |-> 2]

\* Math.round(n/d) for d > 0: the nearest integer, a tie going up.
MathRound(n, d) == (2 * n + d) \div (2 * d)

RECURSIVE Sum(_)
Sum(s) == IF s = <<>> THEN 0 ELSE s[1] + Sum(Tail(s))

\* Variant of SliceLast: slice(0, k), which keeps the oldest k
SliceFirst(s, k) == IF Len(s) <= k THEN s ELSE SubSeq(s, 1, k)

\* newHistory.slice(-FOCUS_HISTORY_SIZE)
SliceLast(s, k) == IF Len(s) <= k THEN s ELSE SubSeq(s, Len(s) - k + 1, Len(s))

Notification(level, switch) == [attentionLevel |-> level, shouldSwitchContent |-> switch]

----------------------------------------------------------------------------
\* Dashboard: the classification of a score, written twice in page.tsx

\* fetchContent, "Assign type and data based on focus score"
FetchType(focusScore) ==
    IF focusScore > 80 THEN "text"
    ELSE IF focusScore > 60 THEN "flipcard"
    ELSE IF focusScore > 40 THEN "tiktok"
    ELSE IF focusScore > 20 THEN "quiz"
    ELSE "react"

\* Variant of NewType: the thresholds compared with >=
NewTypeInclusive(level) ==
    IF level >= 80 THEN "text"
    ELSE IF level >= 60 THEN "flipcard"
    ELSE IF level >= 40 THEN "tiktok"
    ELSE IF level >= 20 THEN "quiz"
    ELSE "react"

\* updateContentType, "Determine new content type based on attention level"
NewType(level) ==
    IF level > 80 THEN "text"
    ELSE IF level > 60 THEN "flipcard"
    ELSE IF level > 40 THEN "tiktok"
    ELSE IF level > 20 THEN "quiz"
    ELSE "react"

\* The field of the response fetchContent reads for a type: result.<field>.data
ResultField(type) == IF type = "react" THEN "mini" ELSE type

\* A response of POST /process-pdf, as far as fetchContent looks at it:
\*   "reject"  fetch() rejects (network error)
\*   "notok"   response.ok is false
\*   "absent"  the result has no field for the classified type
\*   "empty"   the field is there and its data is falsy: result.data is used
\*   "data"    the field is there with its data
Responses == {"reject", "notok", "absent", "empty", "data"}

\* Variant of ContentOf: the score recorded is the initial one, not the one the
\* type was chosen by
ContentOfInitialScore(file, focusScore, resp) ==
    LET type == FetchType(focusScore)
    IN  [focusScore |-> InitialAttentionLevel,
         type       |-> type,
         data       |-> [file  |-> file,
                         field |-> IF resp = "data" THEN ResultField(type) ELSE "data"],
         timestamp  |-> 0]

\* fetchContent from "const result = await response.json()" to setCurrentData:
\* the ContentData built from a response that does not throw.
ContentOf(file, focusScore, resp) ==
    LET type == FetchType(focusScore)
    IN  [focusScore |-> focusScore,
         type       |-> type,
         data       |-> [file  |-> file,
                         field |-> IF resp = "data" THEN ResultField(type) ELSE "data"],
         timestamp  |-> 0]

\* Variant of Throws: a result without the field of the type is read as undefined
ThrowsUnlessFieldAbsent(resp) == resp \in {"reject", "notok"}

\* Whether fetchContent's try block throws on a response.
Throws(resp) == resp \in {"reject", "notok", "absent"}

\* Variant of updateContentType: without "Only update if type is different"
updateContentTypeUnguarded(cd, level, t) ==
    IF IsNull(cd) THEN cd
    ELSE Some([Get(cd) EXCEPT !.type = NewType(level),
                              !.focusScore = level,
                              !.timestamp = t])

\* updateContentType(attentionLevel) on the currentData of its closure, at time t
updateContentType(cd, level, t) ==
    IF IsNull(cd) THEN cd
    ELSE IF NewType(level) # Get(cd).type
         THEN Some([Get(cd) EXCEPT !.type = NewType(level),
                                   !.focusScore = level,
                                   !.timestamp = t])
         ELSE cd

\* handleAttentionChange(data): the currentData it leaves
handleAttentionChange(cd, data, t) ==
    IF ~IsNull(cd) /\ data.shouldSwitchContent
    THEN updateContentType(cd, data.attentionLevel, t)
    ELSE cd

\* Variant of AttentionDataEffect: shouldSwitchContent is not looked at
AttentionDataEffectUnflagged(cd, data, t) ==
    IF ~IsNull(cd) THEN updateContentType(cd, data.attentionLevel, t) ELSE cd

\* useEffect([attentionData, currentData, updateContentType]) for the render in
\* which attentionData is data: the currentData it leaves
AttentionDataEffect(cd, data, t) ==
    IF data.shouldSwitchContent /\ ~IsNull(cd)
    THEN updateContentType(cd, data.attentionLevel, t)
    ELSE cd

\* The Dashboard's handling of the tracker's notifications of one step, in
\* order: handleAttentionChange, then the attentionData effect of the render
\* that follows.
RECURSIVE Deliver(_, _, _)
Deliver(cd, notes, t) ==
    IF notes = <<>> THEN cd
    ELSE Deliver(AttentionDataEffect(handleAttentionChange(cd, notes[1], t), notes[1], t),
                 Tail(notes), t)

\* attentionData after the notifications of one step
AttentionAfter(ad, notes) == IF notes = <<>> THEN ad ELSE notes[Len(notes)]

----------------------------------------------------------------------------
\* AttentionLevelTracker: the effect on [focusScoreHistory, showContentSuggestionModal,
\* onAttentionChange]

\* Variant of IsOnCooldown: the cooldown ends after half the time
IsOnCooldownHalf(last, t) == last # 0 /\ 2 * (t - last) < SUGGESTION_COOLDOWN

\* const isOnCooldown = lastSuggestionTimeRef.current && currentTime - ... < COOLDOWN
IsOnCooldown(last, t) == last # 0 /\ t - last < SUGGESTION_COOLDOWN

\* Variant of Average: Math.floor in place of Math.round
AverageFloor(history) == Sum(history) \div Len(history)

\* Math.round(sum / focusScoreHistory.length)
Average(history) == MathRound(Sum(history), Len(history))

\* Variant of ShouldSuggest: without the test on the number of scores
ShouldSuggestAnyCount(history, modal, last, t) ==
    /\ Average(history) < LOW_FOCUS_THRESHOLD
    /\ ~IsOnCooldown(last, t)
    /\ ~modal

\* The condition under which the effect calls setShowContentSuggestionModal(true)
ShouldSuggest(history, modal, last, t) ==
    /\ Len(history) >= FOCUS_HISTORY_SIZE
    /\ Average(history) < LOW_FOCUS_THRESHOLD
    /\ ~IsOnCooldown(last, t)
    /\ ~modal

\* Variant of EffectNote: the effect asks for a switch itself
EffectNoteSwitching(history) == Notification(Average(history), TRUE)

\* The notification one run of the effect passes to onAttentionChange
EffectNote(history) == Notification(Average(history), FALSE)

\* The runs of the effect that one change of its dependencies causes: it runs
\* once, and once more when that run opened the modal (the modal is a
\* dependency). Gives the state it leaves and the notifications it made.
AverageEffect(history, avg, modal, last, t) ==
    IF history = <<>>
    THEN [avg |-> avg, modal |-> modal, notes |-> <<>>]
    ELSE IF ShouldSuggest(history, modal, last, t)
         THEN [avg |-> Average(history), modal |-> TRUE,
               notes |-> <<EffectNote(history), EffectNote(history)>>]
         ELSE [avg |-> Average(history), modal |-> modal,
               notes |-> <<EffectNote(history)>>]

----------------------------------------------------------------------------
\* The inputs of a session

\* focusScoreUpdate payloads: no score, a low score, a high score
SampleInputs == {Undefined, Num(10), Num(90)}

\* Payloads of a viewer whose attention stays low
LowInputs == {Undefined, Num(10)}

\* Payloads for the smoothing alone: more values, a fractional one, and two
\* outside 0..100
SmoothInputs == {Undefined, Num(0), Num(13), Half(79), Num(100), Num(150), Num(-7)}

\* Payloads around the low-focus threshold
ArbiterInputs == {Num(10), Num(38), Num(40), Num(90)}

\* The scores of a viewer who is attentive at first and then drifts away
Scenario == <<90, 85, 88, 92, 91, 15, 18, 12, 20, 10>>

ScenarioInputs == {Num(Scenario[i]) : i \in DOMAIN Scenario}

TypeOK ==
    /\ selectedFile \in Files \cup {0}
    /\ isLoading \in BOOLEAN
    /\ mounted \in BOOLEAN
    /\ showContentSuggestionModal \in BOOLEAN
    /\ attentionData.shouldSwitchContent \in BOOLEAN
    /\ Len(currentData) <= 1
    /\ Len(focusScoreHistory) <= FOCUS_HISTORY_SIZE
    /\ issued \in Nat
    /\ \A p \in pending : p.id \in 1..issued /\ p.file \in Files

InitSession ==
    /\ selectedFile = 0
    /\ currentData = Null
    /\ isLoading = FALSE
    /\ attentionData = Notification(InitialAttentionLevel, FALSE)
    /\ pending = {}
    /\ mounted = TRUE
    /\ attentionLevel = InitialAttentionLevel
    /\ focusScoreHistory = <<>>
    /\ averageFocusScore = InitialAttentionLevel
    /\ showContentSuggestionModal = FALSE
    /\ lastSuggestionTimeRef = 0
    /\ now = StartTime
    /\ issued = 0
    /\ arrived = <<>>
    /\ emitted = <<>>

Init ==
    /\ InitSession
    /\ signal = 0
    /\ classified = <<>>

----------------------------------------------------------------------------
\* The tracker's effect ran and left eff: the tracker's and the Dashboard's
\* state after the notifications `notes` of the step were delivered.
Notified(eff, notes) ==
    /\ averageFocusScore' = eff.avg
    /\ showContentSuggestionModal' = eff.modal
    /\ currentData' = Deliver(currentData, notes, now)
    /\ attentionData' = AttentionAfter(attentionData, notes)
    /\ emitted' = notes

\* socket.on('focusScoreUpdate', data => ...), and the average effect it causes
FocusScoreUpdate(data) ==
    /\ mounted
    /\ IF data.defined
       THEN LET roundedScore == MathRound(data.num, data.den)
                newHistory == SliceLast(Append(focusScoreHistory, roundedScore),
                                        FOCUS_HISTORY_SIZE)
                eff == AverageEffect(newHistory, averageFocusScore,
                                     showContentSuggestionModal,
                                     lastSuggestionTimeRef, now)
            IN  /\ attentionLevel' = roundedScore
                /\ focusScoreHistory' = newHistory
                /\ arrived' = Append(arrived, data)
                /\ Notified(eff, eff.notes)
                /\ UNCHANGED <<selectedFile, isLoading, pending, issued, mounted,
                               lastSuggestionTimeRef, now, classifyVars>>
       ELSE \* console.error('Invalid focus score data received:', data)
            /\ emitted' = <<>>
            /\ UNCHANGED <<dashboardVars, trackerVars, mounted, now, classifyVars>>

\* Variant of HandleContentChange: the last score (attentionLevel) is passed on
\* in place of the average
HandleContentChangeLastScore ==
    /\ mounted
    /\ showContentSuggestionModal
    /\ lastSuggestionTimeRef' = now
    /\ LET eff == AverageEffect(focusScoreHistory, averageFocusScore, FALSE, now, now)
           notes == <<Notification(attentionLevel, TRUE)>> \o eff.notes
       IN  Notified(eff, notes)
    /\ UNCHANGED <<selectedFile, isLoading, pending, issued, mounted, attentionLevel,
                   focusScoreHistory, arrived, now, classifyVars>>

\* handleContentChange: the "Switch Content" button of the suggestion dialog
HandleContentChange ==
    /\ mounted
    /\ showContentSuggestionModal
    /\ lastSuggestionTimeRef' = now
    /\ LET eff == AverageEffect(focusScoreHistory, averageFocusScore, FALSE, now, now)
           notes == <<Notification(averageFocusScore, TRUE)>> \o eff.notes
       IN  Notified(eff, notes)
    /\ UNCHANGED <<selectedFile, isLoading, pending, issued, mounted, attentionLevel,
                   focusScoreHistory, arrived, now, classifyVars>>

\* handleDismissSuggestion: the "Dismiss" button of the suggestion dialog
HandleDismissSuggestion ==
    /\ mounted
    /\ showContentSuggestionModal
    /\ lastSuggestionTimeRef' = now
    /\ LET eff == AverageEffect(focusScoreHistory, averageFocusScore, FALSE, now, now)
       IN  Notified(eff, eff.notes)
    /\ UNCHANGED <<selectedFile, isLoading, pending, issued, mounted, attentionLevel,
                   focusScoreHistory, arrived, now, classifyVars>>

\* <Dialog onOpenChange={setShowContentSuggestionModal}>: the dialog asks to close
\* (Escape, a click outside, its close button)
DialogOnOpenChange ==
    /\ mounted
    /\ showContentSuggestionModal
    /\ LET eff == AverageEffect(focusScoreHistory, averageFocusScore, FALSE,
                                lastSuggestionTimeRef, now)
       IN  Notified(eff, eff.notes)
    /\ UNCHANGED <<selectedFile, isLoading, pending, issued, mounted, attentionLevel,
                   focusScoreHistory, arrived, lastSuggestionTimeRef, now, classifyVars>>

\* handleFileView / handleFileUpload: setSelectedFile(file), then the effect on
\* [selectedFile] calls fetchContent, which runs up to its await
SelectFile(file) ==
    /\ mounted
    /\ file # selectedFile
    /\ selectedFile' = file
    /\ isLoading' = TRUE
    /\ issued' = issued + 1
    /\ pending' = pending \cup {[id |-> issued + 1, file |-> file,
                                 focusScore |-> attentionData.attentionLevel]}
    /\ emitted' = <<>>
    /\ UNCHANGED <<currentData, attentionData, trackerVars, mounted, now, classifyVars>>

\* fetchContent resumes with the response to request p. The code asks nothing
\* about the page still being mounted: the setters are called either way, and
\* currentData / isLoading hold what was last passed to them. The effects that
\* a new currentData causes run only while the page is mounted.
FetchSettle(p, resp) ==
    /\ p \in pending
    /\ pending' = pending \ {p}
    /\ isLoading' = FALSE
    /\ IF Throws(resp)
       THEN /\ emitted' = <<>>
            /\ UNCHANGED <<currentData, attentionData, averageFocusScore,
                           showContentSuggestionModal>>
       ELSE IF mounted
               THEN LET eff == AverageEffect(focusScoreHistory, averageFocusScore,
                                             showContentSuggestionModal,
                                             lastSuggestionTimeRef, now)
                    IN  /\ averageFocusScore' = eff.avg
                        /\ showContentSuggestionModal' = eff.modal
                        /\ currentData' = Deliver(Some(ContentOf(p.file, p.focusScore, resp)),
                                                  eff.notes, now)
                        /\ attentionData' = AttentionAfter(attentionData, eff.notes)
                        /\ emitted' = eff.notes
               ELSE /\ currentData' = Some(ContentOf(p.file, p.focusScore, resp))
                    /\ emitted' = <<>>
                    /\ UNCHANGED <<attentionData, averageFocusScore,
                                   showContentSuggestionModal>>
    /\ UNCHANGED <<selectedFile, issued, mounted, attentionLevel, focusScoreHistory,
                   arrived, lastSuggestionTimeRef, now, classifyVars>>

\* The viewer navigates away: the Dashboard and the tracker unmount, the
\* tracker's cleanup disconnects the socket.
Unmount ==
    /\ mounted
    /\ mounted' = FALSE
    /\ emitted' = <<>>
    /\ UNCHANGED <<dashboardVars, trackerVars, now, classifyVars>>

\* Time passes
Tick ==
    /\ mounted
    /\ now < StartTime + MaxTicks * TickMs
    /\ now' = now + TickMs
    /\ UNCHANGED <<dashboardVars, trackerVars, mounted, emitted, classifyVars>>

Next ==
    \/ \E data \in SampleInputs : Len(arrived) < MaxSamples /\ FocusScoreUpdate(data)
    \/ HandleContentChange
    \/ HandleDismissSuggestion
    \/ DialogOnOpenChange
    \/ \E file \in Files : issued < MaxFetches /\ SelectFile(file)
    \/ \E p \in pending, resp \in Responses : FetchSettle(p, resp)
    \/ Unmount
    \/ Tick

Spec == Init /\ [][Next]_vars

----------------------------------------------------------------------------
\* A session of a viewer whose attention stays low, over several selections

NextFiles ==
    \/ \E data \in LowInputs : Len(arrived) < MaxLowSamples /\ FocusScoreUpdate(data)
    \/ HandleContentChange
    \/ HandleDismissSuggestion
    \/ DialogOnOpenChange
    \/ \E file \in Files : issued < MaxFileFetches /\ SelectFile(file)
    \/ \E p \in pending, resp \in Responses : FetchSettle(p, resp)
    \/ Unmount
    \/ Tick

SpecFiles == Init /\ [][NextFiles]_vars

----------------------------------------------------------------------------
\* The smoothing alone: a session in which only samples arrive

NextSmooth ==
    \E data \in SmoothInputs : Len(arrived) < MaxSmoothSamples /\ FocusScoreUpdate(data)

SpecSmooth == Init /\ [][NextSmooth]_vars

----------------------------------------------------------------------------
\* The tracker alone: samples around the threshold, the dialog, the clock

NextArbiter ==
    \/ \E data \in ArbiterInputs : Len(arrived) < MaxArbiterSamples /\ FocusScoreUpdate(data)
    \/ HandleContentChange
    \/ HandleDismissSuggestion
    \/ DialogOnOpenChange
    \/ Tick

SpecArbiter == Init /\ [][NextArbiter]_vars

----------------------------------------------------------------------------
\* A session in which the scores of Scenario arrive, in that order

ScenarioSample ==
    /\ Len(arrived) < Len(Scenario)
    /\ FocusScoreUpdate(Num(Scenario[Len(arrived) + 1]))

NextScenario ==
    \/ ScenarioSample
    \/ HandleContentChange
    \/ HandleDismissSuggestion
    \/ DialogOnOpenChange
    \/ \E file \in Files : issued < MaxFetches /\ SelectFile(file)
    \/ \E p \in pending, resp \in Responses : FetchSettle(p, resp)
    \/ Tick

SpecScenario == Init /\ [][NextScenario]_vars

----------------------------------------------------------------------------
\* The classification alone: one signal handed to both copies of it

InitClassify ==
    /\ InitSession
    /\ signal \in 0..MaxSignal
    /\ classified = <<>>

Classify ==
    /\ classified = <<>>
    /\ classified' = <<FetchType(signal), NewType(signal)>>
    /\ UNCHANGED <<dashboardVars, trackerVars, mounted, now, emitted, signal>>

SpecClassify == InitClassify /\ [][Classify]_vars

----------------------------------------------------------------------------
\* Claims

\* ContentState.format: currentData.type, "none" while currentData is null
Format(cd) == IF IsNull(cd) THEN "none" ELSE Get(cd).type

NoSwitchNote(notes) == \A i \in DOMAIN notes : ~notes[i].shouldSwitchContent

SampleStep == \E data \in SampleInputs \cup LowInputs : FocusScoreUpdate(data)

SettleStep(resps) == \E p \in pending, resp \in resps : FetchSettle(p, resp)

\* C1: a focusScoreUpdate sample never changes currentData.type, whether or not
\* it opens the suggestion modal or arrives while the modal is open; the
\* notifications it causes all carry shouldSwitchContent = false; and a step
\* that is no fetch settling and notifies no shouldSwitchContent = true leaves
\* the loaded content alone (updateContentType changes nothing in it).
C1_SamplesNeverSwitch ==
    /\ [][SampleStep => /\ Format(currentData') = Format(currentData)
                        /\ NoSwitchNote(emitted')]_vars
    /\ [][(~IsNull(currentData) /\ pending' = pending /\ NoSwitchNote(emitted'))
              => currentData' = currentData]_vars

\* C1 witness: content is loaded, the modal is open, more samples than the
\* window holds have arrived, and a switch to the current average would have
\* changed the type.
C1_Witness ==
    /\ mounted
    /\ ~IsNull(currentData)
    /\ showContentSuggestionModal
    /\ Len(arrived) > FOCUS_HISTORY_SIZE
    /\ Len(emitted) = 1
    /\ Format(currentData) # NewType(averageFocusScore)

\* C2 as stated: in every step in which currentData.type changes, the step is
\* the first successful fetch (currentData goes from null to a value) or
\* handleContentChange; a later fetch resolving never changes the type. Stated
\* here for the sessions in which no fetch is overtaken by a later one (at most
\* the fetch issued last is pending).
C2_FirstFetchOrConfirmOnly ==
    [][(/\ Format(currentData') # Format(currentData)
        /\ \A p \in pending : p.id = issued)
          => \/ IsNull(currentData) /\ SettleStep(Responses)
             \/ HandleContentChange]_vars

\* C2 as amended: in every step in which currentData.type changes, the step is
\* a fetch of fetchContent resolving successfully (the first one or a later
\* one) or handleContentChange; samples, dismissals, the dialog closing, a file
\* selection itself and a failing fetch never change it.
C2_FetchOrConfirmOnly ==
    [][Format(currentData') # Format(currentData)
          => \/ SettleStep({r \in Responses : r \in {"empty", "data"}})
             \/ HandleContentChange]_vars

\* C2 witness: a confirmation has just changed the type of content that a
\* fetch had loaded.
C2_Witness ==
    /\ Len(emitted) = 2
    /\ emitted[1].shouldSwitchContent
    /\ ~IsNull(currentData)
    /\ Get(currentData).timestamp = now
    /\ Get(currentData).type # FetchType(InitialAttentionLevel)
    /\ Get(currentData).type = NewType(emitted[1].attentionLevel)

\* C3: whenever content is loaded, currentData.data is the payload the content
\* source returned for currentData.type (the type's own field of the result,
\* or the result's generic data the code falls back to).
C3_PayloadMatchesFormat ==
    ~IsNull(currentData)
        => Get(currentData).data.field \in {ResultField(Get(currentData).type), "data"}

\* C4: handleContentChange with an average whose classification is the type of
\* the loaded content leaves currentData identical (type, data, focusScore,
\* timestamp) and issues no fetch, the second application by the attentionData
\* effect included.
C4_SameFormatIsNoOp ==
    [][(/\ HandleContentChange
        /\ ~IsNull(currentData)
        /\ NewType(averageFocusScore) = Get(currentData).type)
          => /\ currentData' = currentData
             /\ pending' = pending
             /\ issued' = issued
             /\ isLoading' = isLoading]_vars

\* C4 witness: a confirmation has just been handled, at a later time than the
\* page was mounted, for content of the very type the average classifies to,
\* and the content still carries no timestamp.
C4_Witness ==
    /\ Len(emitted) = 2
    /\ emitted[1].shouldSwitchContent
    /\ ~IsNull(currentData)
    /\ Get(currentData).type = NewType(emitted[1].attentionLevel)
    /\ Get(currentData).timestamp = 0
    /\ now > StartTime

\* C5: a fetch of fetchContent that fails (fetch rejects, the response is not
\* OK, the result lacks the field of the classified type) leaves currentData as
\* it was and clears isLoading.
C5_FailedFetchNotApplied ==
    [][SettleStep({"reject", "notok", "absent"})
          => /\ currentData' = currentData
             /\ isLoading' = FALSE]_vars

\* C5 witness: two fetches were issued and both have failed: nothing is
\* pending, nothing is loading, and currentData is still null.
C5_Witness ==
    /\ mounted
    /\ issued = 2
    /\ pending = {}
    /\ ~isLoading
    /\ IsNull(currentData)

TableType(x) ==
    CASE x > 80 -> "text"
      [] x \in 61..80 -> "flipcard"
      [] x \in 41..60 -> "tiktok"
      [] x \in 21..40 -> "quiz"
      [] x \in 0..20 -> "react"

\* The place of a type in the table, the richest format first
Rank(type) ==
    CASE type = "text" -> 5
      [] type = "flipcard" -> 4
      [] type = "tiktok" -> 3
      [] type = "quiz" -> 2
      [] type = "react" -> 1

\* C7: for every signal in 0..100 both copies of the classification (in
\* fetchContent and in updateContentType) give the type of the threshold table
\* with strict '>' boundaries, they agree with each other, and no lower
\* signal is given a type higher in the table.
C7_ClassifyMatchesTable ==
    classified # <<>>
        => /\ classified[1] = TableType(signal)
           /\ classified[2] = TableType(signal)
           /\ classified[1] = classified[2]
           /\ \A lower \in 0..signal :
                 /\ Rank(FetchType(lower)) <= Rank(classified[1])
                 /\ Rank(NewType(lower)) <= Rank(classified[2])

\* C7 witness: the boundary value 80 has been classified, as flipcard, by both.
C7_Witness ==
    /\ signal = 80
    /\ classified = <<"flipcard", "flipcard">>

\* The k-th last accepted payload is an integer
IsInteger(data) == data.den = 1

Min(a, b) == IF a <= b THEN a ELSE b

\* a is x/len rounded to the nearest integer, a tie going up
IsRoundedMean(a, x, len) == 2 * len * a <= 2 * x + len /\ 2 * x + len < 2 * len * (a + 1)

\* C8: after n >= 1 accepted samples focusScoreHistory has min(n, 5) entries,
\* which are the last min(n, 5) samples in arrival order (for the integer
\* samples: the very values that arrived), and both averageFocusScore and the
\* attentionLevel reported to the Dashboard are round(sum / length) of them.
C8_SlidingWindowMean ==
    arrived # <<>>
        => LET n == Len(arrived)
               k == Min(n, FOCUS_HISTORY_SIZE)
           IN  /\ Len(focusScoreHistory) = k
               /\ \A i \in 1..k :
                     IsInteger(arrived[n - k + i])
                         => focusScoreHistory[i] = arrived[n - k + i].num
               /\ IsRoundedMean(averageFocusScore, Sum(focusScoreHistory), k)
               /\ attentionData.attentionLevel = averageFocusScore
               /\ emitted # <<>> => emitted[Len(emitted)].attentionLevel = averageFocusScore

\* C8 witness: more samples than the window holds have arrived, all integers,
\* the first of them differs from the oldest kept, and the mean of the kept
\* ones is no integer.
C8_Witness ==
    /\ Len(arrived) > FOCUS_HISTORY_SIZE
    /\ \A i \in DOMAIN arrived : IsInteger(arrived[i])
    /\ arrived[1].num # focusScoreHistory[1]
    /\ Sum(focusScoreHistory) % FOCUS_HISTORY_SIZE # 0

\* A payload without a score, or with a score outside 0..100
Malformed(data) == ~data.defined \/ data.num < 0 \/ data.num > 100 * data.den

\* C9: a focusScoreUpdate whose focusScore is missing or outside 0..100 changes
\* neither the history, the average nor the suggestion state and notifies
\* nobody; so every score in the history, and the average, is within 0..100.
C9_MalformedRejected ==
    /\ [][\A data \in SmoothInputs :
             (Malformed(data) /\ FocusScoreUpdate(data))
                 => /\ UNCHANGED <<focusScoreHistory, averageFocusScore,
                                   showContentSuggestionModal, lastSuggestionTimeRef>>
                    /\ emitted' = <<>>]_vars
    /\ [](/\ \A i \in DOMAIN focusScoreHistory : focusScoreHistory[i] \in 0..100
          /\ averageFocusScore \in 0..100)

\* C10: while fewer than 5 samples have been accepted the suggestion modal is
\* closed.
C10_NoSuggestionBeforeFive ==
    Len(arrived) < FOCUS_HISTORY_SIZE => ~showContentSuggestionModal

\* C10 witness: four samples have arrived, their average is below the
\* threshold, content is loaded, time has passed, and the modal is closed.
C10_Witness ==
    /\ Len(arrived) = FOCUS_HISTORY_SIZE - 1
    /\ averageFocusScore < LOW_FOCUS_THRESHOLD
    /\ ~IsNull(currentData)
    /\ now > StartTime
    /\ ~showContentSuggestionModal

\* A sample with a score: the ones the handler accepts
AcceptedSampleStep ==
    \E data \in SampleInputs \cup LowInputs \cup ArbiterInputs \cup ScenarioInputs :
        data.defined /\ FocusScoreUpdate(data)

\* The suggestion modal goes from closed to open
OpenStep == ~showContentSuggestionModal /\ showContentSuggestionModal'

\* The suggestion is resolved by the viewer: confirm or dismiss
ResolveStep == HandleContentChange \/ HandleDismissSuggestion

\* C11 as stated: confirm and dismiss record the time t of the resolution, and
\* the modal opens again at a time t' only if t' - t is strictly more than
\* 60000 ms (or no resolution was recorded yet).
C11_NoReopenUnlessExceeded ==
    /\ [][ResolveStep => lastSuggestionTimeRef' = now]_vars
    /\ [][OpenStep => \/ lastSuggestionTimeRef = 0
                      \/ now - lastSuggestionTimeRef > SUGGESTION_COOLDOWN]_vars

\* C11 as amended: confirm and dismiss record the time t of the resolution, and
\* the modal opens again at a time t' only if t' - t is at least 60000 ms (at
\* exactly 60000 ms it can open), even if the window holds 5 readings whose
\* average is below 40 at t'; with no resolution recorded the cooldown does not
\* hold the modal back.
C11_NoReopenWithinCooldown ==
    /\ [][ResolveStep => lastSuggestionTimeRef' = now]_vars
    /\ [][OpenStep => \/ lastSuggestionTimeRef = 0
                      \/ now - lastSuggestionTimeRef >= SUGGESTION_COOLDOWN]_vars
    /\ [][(/\ AcceptedSampleStep
           /\ ~showContentSuggestionModal
           /\ lastSuggestionTimeRef = 0
           /\ Len(focusScoreHistory') >= FOCUS_HISTORY_SIZE
           /\ averageFocusScore' < LOW_FOCUS_THRESHOLD)
             => showContentSuggestionModal']_vars

\* C11 witness: a suggestion was resolved, time has passed but less than the
\* cooldown, a sixth sample has just been evaluated on a full window whose
\* average is below the threshold, and the modal is closed.
C11_Witness ==
    /\ mounted
    /\ lastSuggestionTimeRef # 0
    /\ now > lastSuggestionTimeRef
    /\ now - lastSuggestionTimeRef < SUGGESTION_COOLDOWN
    /\ Len(arrived) > FOCUS_HISTORY_SIZE
    /\ Len(emitted) = 1
    /\ Len(focusScoreHistory) = FOCUS_HISTORY_SIZE
    /\ averageFocusScore < LOW_FOCUS_THRESHOLD
    /\ ~showContentSuggestionModal

\* No resolution is recorded, or at least the cooldown has passed since
CooldownOver == lastSuggestionTimeRef = 0 \/ now - lastSuggestionTimeRef >= SUGGESTION_COOLDOWN

\* The mean of history, rounded to the nearest integer (a tie going up), is below x
RoundedMeanBelow(history, x) == 2 * Sum(history) + Len(history) < 2 * Len(history) * x

\* C12 as stated: a sample processed while the modal is closed, leaving 5
\* readings in the window, with the cooldown over, opens the modal in that step
\* if and only if the arithmetic mean of the 5 readings is below 40.
C12_OpensIffMeanBelow ==
    [][(/\ AcceptedSampleStep
        /\ ~showContentSuggestionModal
        /\ Len(focusScoreHistory') = FOCUS_HISTORY_SIZE
        /\ CooldownOver)
          => (showContentSuggestionModal'
                <=> Sum(focusScoreHistory') < FOCUS_HISTORY_SIZE * LOW_FOCUS_THRESHOLD)]_vars

\* C12 as amended: a sample processed while the modal is closed, leaving 5
\* readings in the window, with the cooldown over (nothing recorded, or at
\* least 60000 ms since), opens the modal in that step if and only if the mean
\* of the 5 readings rounded to the nearest integer is below 40, that is, the
\* mean is below 39.5.
C12_OpensIffRoundedMeanBelow ==
    [][(/\ AcceptedSampleStep
        /\ ~showContentSuggestionModal
        /\ Len(focusScoreHistory') = FOCUS_HISTORY_SIZE
        /\ CooldownOver)
          => (showContentSuggestionModal'
                <=> RoundedMeanBelow(focusScoreHistory', LOW_FOCUS_THRESHOLD))]_vars

\* C12 witness: a sample has just been evaluated on a full window whose mean
\* is below 40 but rounds to 40, nothing holds the modal back, and it is closed.
C12_Witness ==
    /\ Len(focusScoreHistory) = FOCUS_HISTORY_SIZE
    /\ Sum(focusScoreHistory) < FOCUS_HISTORY_SIZE * LOW_FOCUS_THRESHOLD
    /\ averageFocusScore = LOW_FOCUS_THRESHOLD
    /\ lastSuggestionTimeRef = 0
    /\ Len(emitted) = 1
    /\ ~showContentSuggestionModal

\* C13: a confirmation while content is loaded passes on the rounded mean A of
\* the current window with shouldSwitchContent = true, leaves the type
\* classify(A), and, if the type changed, the focusScore A; after the scores
\* 90,85,88,92,91 and then 15,18,12,20,10 a confirmation leaves the type react
\* (Interactive).
C13_ConfirmReclassifies ==
    [][(HandleContentChange /\ ~IsNull(currentData))
          => /\ IsRoundedMean(averageFocusScore, Sum(focusScoreHistory),
                              Len(focusScoreHistory))
             /\ emitted'[1] = Notification(averageFocusScore, TRUE)
             /\ Format(currentData') = TableType(averageFocusScore)
             /\ Format(currentData') # Format(currentData)
                   => Get(currentData').focusScore = averageFocusScore
             /\ Len(arrived) = Len(Scenario) => Format(currentData') = "react"]_vars

\* C13 witness: all ten scores have arrived, content that was fetched as text
\* has just been switched by a confirmation, and it is react with focusScore 15.
C13_Witness ==
    /\ Len(arrived) = Len(Scenario)
    /\ Len(emitted) = 2
    /\ emitted[1] = Notification(15, TRUE)
    /\ ~IsNull(currentData)
    /\ Get(currentData).type = "react"
    /\ Get(currentData).focusScore = 15
    /\ Get(currentData).data.field = "text"
    /\ Get(currentData).timestamp = now

\* C14: the modal goes from open to closed only in a confirm or dismiss step,
\* which records the current time in lastSuggestionTimeRef; and a close asked
\* for by the dialog itself (onOpenChange) leaves the modal closed with the
\* time recorded, so that the evaluation following the close cannot reopen it.
C14_CloseRecordsCooldown ==
    /\ [][(showContentSuggestionModal /\ ~showContentSuggestionModal')
             => (ResolveStep /\ lastSuggestionTimeRef' = now)]_vars
    /\ [][DialogOnOpenChange
             => (~showContentSuggestionModal' /\ lastSuggestionTimeRef' = now)]_vars

\* C15: every accepted sample makes the tracker call onAttentionChange exactly
\* once, the one that opens the modal included; a confirmation makes it call
\* once, with shouldSwitchContent = true, and nothing more; a dismissal and the
\* dialog closing make it call not at all.
C15_OneNotificationPerEvent ==
    /\ [][AcceptedSampleStep => Len(emitted') = 1]_vars
    /\ [][HandleContentChange
             => (Len(emitted') = 1 /\ emitted'[1].shouldSwitchContent)]_vars
    /\ [][HandleDismissSuggestion => emitted' = <<>>]_vars
    /\ [][DialogOnOpenChange => emitted' = <<>>]_vars

\* C16: the fetch issued for the latest selection, when it resolves, leaves the
\* content fetched for the selected file; and once the content of the selected
\* file is held, no fetch settling (that of an earlier selection arriving late
\* included) replaces it by the content of another file.
C16_LatestSelectionWins ==
    /\ [][\A p \in pending :
             (p.id = issued /\ \E resp \in {"empty", "data"} : FetchSettle(p, resp))
                 => Get(currentData').data.file = selectedFile]_vars
    /\ [][(/\ SettleStep(Responses)
           /\ ~IsNull(currentData)
           /\ Get(currentData).data.file = selectedFile)
             => (~IsNull(currentData') /\ Get(currentData').data.file = selectedFile)]_vars

\* C17: whenever content is loaded, its type is the classification of its
\* focusScore: after the first fetch, after a confirmed switch (whether or not
\* it changed the type) and after a later fetch.
C17_TypeClassifiesScore ==
    ~IsNull(currentData) => Get(currentData).type = TableType(Get(currentData).focusScore)

\* C17 witness: two fetches have resolved, and a confirmation has then changed
\* the type of the content of the second.
C17_Witness ==
    /\ issued = 2
    /\ pending = {}
    /\ ~IsNull(currentData)
    /\ Get(currentData).data.file = selectedFile
    /\ Get(currentData).type # FetchType(InitialAttentionLevel)
    /\ Get(currentData).data.field = ResultField(FetchType(InitialAttentionLevel))
    /\ Get(currentData).focusScore = averageFocusScore
    /\ Get(currentData).timestamp # 0

\* C18: whenever the suggestion modal is open the average shown is below 40,
\* samples arriving while it is open included; so a confirmation passes on a
\* level below 40 with shouldSwitchContent = true, a level that classifies to
\* quiz or react.
C18_ConfirmAppliesLowFormat ==
    /\ [](showContentSuggestionModal => averageFocusScore < LOW_FOCUS_THRESHOLD)
    /\ [][HandleContentChange
             => /\ emitted'[1].shouldSwitchContent
                /\ emitted'[1].attentionLevel < LOW_FOCUS_THRESHOLD
                /\ TableType(emitted'[1].attentionLevel) \in {"quiz", "react"}]_vars

\* C19: while a fetch issued by fetchContent has not settled isLoading is
\* true, and once every fetch issued has settled isLoading is false.
C19_LoadingCoversPending ==
    /\ pending # {} => isLoading
    /\ pending = {} => ~isLoading

====
